---- MODULE Spec2Model ----
(***************************************************************************)
(* Cart / inventory reservation logic of the customer service              *)
(* (src/admin_server.js, second server: POST /cart/add, PUT /cart/:email/  *)
(* :itemId, POST /order) over the shared document store.                   *)
(*                                                                         *)
(* Every request handler is an async function: it runs without             *)
(* interruption between two awaits, and every await is one store           *)
(* operation (findOne, updateOne, insertOne, deleteOne) that the store     *)
(* executes atomically.  An action of this module is one store operation   *)
(* of one handler together with the synchronous code that follows it up    *)
(* to the next await.  Handlers of different requests interleave at the    *)
(* awaits.                                                                 *)
(*                                                                         *)
(* Numbers are integers: prices and quantities are drawn from integer      *)
(* sets, on which the arithmetic of JavaScript Numbers is exact.           *)
(***************************************************************************)
EXTENDS Integers, Sequences, FiniteSets, TLC

\* ---------------------------------------------------------------- bounds
\* Number of requests (of customers and of the admin) served in one
\* behaviour.
MaxReqs == 3

\* ---------------------------------------------------------------- inputs
\* Handler activations that can be in flight at the same time.
Procs == {1, 2}

Emails == {"a", "b"}

\* (itemType, itemId) pairs a request can name: the three stored resources,
\* an id that is in no collection, and an item type the service does not know.
Targets == { <<"menu", "m1">>, <<"table", "t1">>, <<"eventhall", "h1">> }

\* Requests that name an id that is in no collection, or an item type the
\* service does not know.
BadTargets == { <<"menu", "zz">>, <<"other", "m1">> }

\* The bodies of POST /cart/add: each customer asks for one unit of each
\* resource at the catalog price; customer a also sends a price that is not
\* the catalog price, a negative quantity, and one body for each guard that
\* rejects a request (quantity 0 is falsy, price 0 fails the price guard).
AddBodies ==
  [email : Emails, target : Targets, price : {2}, quantity : {1}]
  \cup [email : {"a"}, target : { <<"menu", "m1">> }, price : {3},
        quantity : {1}]
  \cup [email : {"a"}, target : { <<"menu", "m1">> }, price : {2},
        quantity : {-1}]
  \cup [email : {"a"}, target : BadTargets, price : {2}, quantity : {1}]
  \cup [email : {"a"}, target : { <<"menu", "m1">> }, price : {2},
        quantity : {0}]
  \cup [email : {"a"}, target : { <<"menu", "m1">> }, price : {0},
        quantity : {1}]

\* The requests PUT /cart/:email/:itemId: each customer takes one unit off
\* each resource; customer a also adds one unit, and takes off more than a
\* line item of one unit holds.
PutBodies ==
  [email : Emails, target : Targets, change : {-1}]
  \cup [email : {"a"}, target : { <<"menu", "m1">>, <<"table", "t1">> },
        change : {1}]
  \cup [email : {"a"}, target : { <<"menu", "m1">> }, change : {-2}]

\* The codes Math.floor(100000 + Math.random() * 900000).toString() can
\* give, and the codes a request to /verify-code can carry.
Codes == {"c1", "c2"}

SentCodes == Codes \cup {"c0"}

\* req.body.newPassword of /change-password ("" for a missing field).
NewPasswords == {"", "p1"}

\* The clock Date.now(), in minutes: it advances in steps of TickMinutes up
\* to MaxMinutes; a code expires ExpiryMinutes (10 * 60 * 1000 ms) after it
\* was issued.
TickMinutes == 5

ExpiryMinutes == 10

MaxMinutes == 15

\* bcrypt.hash(newPassword, 10)
Hash(password) == <<"bcrypt", password>>

\* req.body.offerPrice of POST /admin/offers/add.
OfferPrices == {1}

\* ------------------------------------------------------- store documents
MenuIds == {"m1"}
TableIds == {"t1"}
HallIds == {"h1"}

NoCart == [found |-> FALSE, items |-> <<>>, totalCost |-> 0]

NoReq ==
  [op |-> "none", email |-> "a", itemType |-> "menu", itemId |-> "m1",
   price |-> 0, amount |-> 0]

\* items.reduce((acc, item) => acc + item.price * item.quantity, 0)
RECURSIVE SumItems(_)
SumItems(items) ==
  IF items = <<>> THEN 0
  ELSE items[1].price * items[1].quantity + SumItems(Tail(items))

\* collection.findOne({ email }): position of the first document with that
\* email, 0 when there is none.
RECURSIVE FindFrom(_, _, _)
FindFrom(coll, email, i) ==
  IF i > Len(coll) THEN 0
  ELSE IF coll[i].email = email THEN i
  ELSE FindFrom(coll, email, i + 1)

FindOne(coll, email) == FindFrom(coll, email, 1)

\* items.findIndex(item => item._id === itemId && item.itemType === itemType)
\* (0 for -1).
RECURSIVE FindIndexFrom(_, _, _, _)
FindIndexFrom(items, itemId, itemType, i) ==
  IF i > Len(items) THEN 0
  ELSE IF items[i]._id = itemId /\ items[i].itemType = itemType THEN i
  ELSE FindIndexFrom(items, itemId, itemType, i + 1)

FindIndex(items, itemId, itemType) == FindIndexFrom(items, itemId, itemType, 1)

\* items.splice(i, 1)
Splice(items, i) ==
  [k \in 1..(Len(items) - 1) |-> IF k < i THEN items[k] ELSE items[k + 1]]

\* collection.deleteOne({ email })
DeleteOne(coll, email) ==
  LET i == FindOne(coll, email) IN
  IF i = 0 THEN coll ELSE Splice(coll, i)

\* offerCollection.findOne({ itemId }) followed by the validity test of the
\* offer price: the offer price when the first offer of the item has a
\* positive numeric price, 0 when there is no such offer.
RECURSIVE FindOfferFrom(_, _, _)
FindOfferFrom(offers, itemId, i) ==
  IF i > Len(offers) THEN 0
  ELSE IF offers[i].itemId = itemId THEN i
  ELSE FindOfferFrom(offers, itemId, i + 1)

ValidOfferPrice(offers, itemId) ==
  LET i == FindOfferFrom(offers, itemId, 1) IN
  IF i # 0 /\ offers[i].offerPrice > 0 THEN offers[i].offerPrice ELSE 0

VARIABLES
  menuCollection,   \* menu item id -> [quantity, price]
  tableCollection,  \* table id -> [available]
  eventCollection,  \* event hall id -> [available]
  offerCollection,  \* sequence of [itemId, offerPrice]
  cartCollection,   \* sequence of [email, items, totalCost]
  orderCollection,  \* sequence of [email, items, total]
  pc,               \* position of each handler activation
  req,              \* the request each activation serves
  effectivePrice,   \* local of POST /cart/add
  userCart,         \* the cart document a handler read (userCart / cart)
  res,              \* the response of the last request of the activation
  reqCount,         \* requests begun so far
  pre,              \* history: the store when the request began, kept
                    \* while no other handler has taken a step since
  prev,             \* history: the cart-add that the request of the
                    \* activation undoes, and the store when that cart-add
                    \* began, kept while no other handler has taken a step
  usersCollection,  \* registered email -> [password]
  verificationCodes, \* email -> <<>> or <<[code, timestamp]>>
  now,              \* Date.now() in minutes
  authRes,          \* the last response of an account handler
  resetSince,       \* history: the emails whose password was reset since
                    \* their stored code was issued
  adminVerificationCodes, \* verificationCodes of the admin service:
                    \* email -> code, or Undefined
  adminPending,     \* the /admin/change-password requests that passed the
                    \* code test and await the hash and the update
  adminRes          \* the last response of an admin account handler

vars ==
  <<menuCollection, tableCollection, eventCollection, offerCollection,
    cartCollection, orderCollection, pc, req, effectivePrice, userCart, res,
    reqCount, pre, prev, usersCollection, verificationCodes, now, authRes,
    resetSince, adminVerificationCodes, adminPending, adminRes>>

\* The state of the cart handlers, and the state of the account handlers.
cartState ==
  <<menuCollection, tableCollection, eventCollection, offerCollection,
    cartCollection, orderCollection, pc, req, effectivePrice, userCart, res,
    reqCount, pre, prev>>

accounts ==
  <<usersCollection, verificationCodes, now, authRes, resetSince>>

NoAuthRes == [op |-> "none", email |-> "a", code |-> "", status |-> "none"]

\* The state of the account handlers of the admin service.
adminAccounts == <<adminVerificationCodes, adminPending, adminRes>>

\* The emails a request to the admin service names: an admin and a customer.
AdminEmails == {"root", "a"}

\* The value of a missing property of an object or of a missing body field.
Undefined == "undefined"

\* req.body.code and req.body.newPassword of /admin/change-password.
AdminSentCodes == Codes \cup {Undefined}

AdminNewPasswords == {"p1", "p2"}

inventory == <<menuCollection, tableCollection, eventCollection>>

Snapshot ==
  [menu |-> menuCollection, tables |-> tableCollection,
   halls |-> eventCollection, carts |-> cartCollection,
   orders |-> orderCollection]

Init ==
  /\ menuCollection = [m \in MenuIds |-> [quantity |-> 2, price |-> 2]]
  /\ tableCollection = [t \in TableIds |-> [available |-> 1]]
  /\ eventCollection = [h \in HallIds |-> [available |-> TRUE]]
  /\ offerCollection = <<>>
  /\ cartCollection = <<>>
  /\ orderCollection = <<>>
  /\ pc = [p \in Procs |-> "idle"]
  /\ req = [p \in Procs |-> NoReq]
  /\ effectivePrice = [p \in Procs |-> 0]
  /\ userCart = [p \in Procs |-> NoCart]
  /\ res = [p \in Procs |-> "none"]
  /\ reqCount = 0
  /\ pre = [p \in Procs |-> <<>>]
  /\ prev = [p \in Procs |-> <<>>]
  /\ usersCollection =
       [e \in {"a", "root"} |->
          [password |-> Hash("p0"), isAdmin |-> (e = "root")]]
  /\ verificationCodes = [e \in Emails |-> <<>>]
  /\ now = 0
  /\ authRes = NoAuthRes
  /\ resetSince = {}
  /\ adminVerificationCodes = [e \in AdminEmails |-> Undefined]
  /\ adminPending = {}
  /\ adminRes = NoAuthRes

\* ------------------------------------------------------------- scheduling
InFlight(p) == pc[p] \notin {"idle", "done"}

\* A new request is taken by activation 1 when it is free and by activation 2
\* only while activation 1 is busy (activations are interchangeable).
CanBegin(p) ==
  /\ ~InFlight(p)
  /\ reqCount < MaxReqs
  /\ \A r \in Procs : r < p => InFlight(r)

\* The request body undoes the previous request of p: that request was a
\* successful cart-add, and body changes the quantity of the same resource of
\* the same customer by minus the quantity added.
Undoes(p, body) ==
  /\ pc[p] = "done"
  /\ req[p].op = "add"
  /\ res[p] = "ok"
  /\ body.email = req[p].email
  /\ body.target = <<req[p].itemType, req[p].itemId>>
  /\ body.change = -req[p].amount

\* History bookkeeping of a step that begins a request of p; follows says
\* that prev is to keep the previous request of p.
BeginHist(p, follows) ==
  /\ reqCount' = reqCount + 1
  /\ pre' = [r \in Procs |-> IF r = p THEN <<Snapshot>> ELSE <<>>]
  /\ prev' = [r \in Procs |->
               IF r = p /\ follows /\ pre[p] # <<>>
               THEN <<[req |-> req[p], pre |-> pre[p][1]]>>
               ELSE <<>>]

\* History bookkeeping of a later step of p.
StepHist(p) ==
  /\ reqCount' = reqCount
  /\ pre' = [r \in Procs |-> IF r = p THEN pre[p] ELSE <<>>]
  /\ prev' = [r \in Procs |-> IF r = p THEN prev[p] ELSE <<>>]

\* The value of a handler-local variable f when a request of p begins with
\* value v: the response of an activation that has ended is forgotten.
Fresh(f, p, v, blank) ==
  [r \in Procs |-> IF r = p THEN v ELSE IF InFlight(r) THEN f[r] ELSE blank]

\* The first step of a handler ends with a response, or at an await.
BeginRespond(p, r) ==
  /\ pc' = Fresh(pc, p, "done", "idle")
  /\ res' = Fresh(res, p, r, "none")

BeginGoto(p, label) ==
  /\ pc' = Fresh(pc, p, label, "idle")
  /\ res' = Fresh(res, p, "none", "none")

\* The handler of p sends its response and ends.
Respond(p, r) ==
  /\ pc' = [pc EXCEPT ![p] = "done"]
  /\ res' = [res EXCEPT ![p] = r]

Goto(p, label) ==
  /\ pc' = [pc EXCEPT ![p] = label]
  /\ res' = [res EXCEPT ![p] = "none"]

\* ------------------------------------------------------- POST /cart/add
\* The request arrives: field validation, price guard, and the first store
\* read of the branch chosen by itemType with the checks that follow it.
CartAddBegin(p) ==
  /\ CanBegin(p)
  /\ \E body \in AddBodies :
       LET email == body.email
           itemType == body.target[1]
           itemId == body.target[2]
           price == body.price
           quantity == body.quantity
       IN
       /\ req' = Fresh(req, p,
                    [op |-> "add", email |-> email, itemType |-> itemType,
                     itemId |-> itemId, price |-> price, amount |-> quantity], NoReq)
       /\ effectivePrice' = Fresh(effectivePrice, p, price, 0)
       /\ userCart' = Fresh(userCart, p, NoCart, NoCart)
       /\ IF quantity = 0 THEN BeginRespond(p, "missing")
          ELSE IF price <= 0 THEN BeginRespond(p, "badprice")
          ELSE IF itemType = "menu" THEN
            IF itemId \notin DOMAIN menuCollection THEN BeginRespond(p, "notfound")
            ELSE IF menuCollection[itemId].quantity < quantity
              THEN BeginRespond(p, "insufficient")
            ELSE BeginGoto(p, "add_findOffer")
          ELSE IF itemType = "table" THEN
            IF itemId \notin DOMAIN tableCollection THEN BeginRespond(p, "notfound")
            ELSE IF tableCollection[itemId].available < quantity
              THEN BeginRespond(p, "insufficient")
            ELSE BeginGoto(p, "add_reserve")
          ELSE IF itemType = "eventhall" THEN
            IF itemId \notin DOMAIN eventCollection THEN BeginRespond(p, "notfound")
            ELSE IF ~eventCollection[itemId].available
              THEN BeginRespond(p, "unavailable")
            ELSE BeginGoto(p, "add_reserve")
          ELSE BeginRespond(p, "badtype")
  /\ BeginHist(p, FALSE)
  /\ UNCHANGED <<inventory, offerCollection, cartCollection, orderCollection>>
  /\ UNCHANGED accounts
  /\ UNCHANGED adminAccounts

\* offerCollection.findOne({ itemId }) and the choice of the effective price.
CartAddFindOffer(p) ==
  /\ pc[p] = "add_findOffer"
  /\ LET offerPrice == ValidOfferPrice(offerCollection, req[p].itemId) IN
     effectivePrice' = [effectivePrice EXCEPT ![p] =
                          IF offerPrice > 0 THEN offerPrice ELSE @]
  /\ Goto(p, "add_reserve")
  /\ StepHist(p)
  /\ UNCHANGED <<inventory, offerCollection, cartCollection, orderCollection,
                 req, userCart>>
  /\ UNCHANGED accounts
  /\ UNCHANGED adminAccounts

\* updateOne({ _id }, { $inc: { quantity: -quantity } })
IncQuantity(menu, itemId, n) ==
  IF itemId \in DOMAIN menu
  THEN [menu EXCEPT ![itemId].quantity = @ + n]
  ELSE menu

\* updateOne({ _id }, { $inc: { available: -quantity } })
IncAvailable(tables, itemId, n) ==
  IF itemId \in DOMAIN tables
  THEN [tables EXCEPT ![itemId].available = @ + n]
  ELSE tables

\* Variant of SetAvailable: the flag is left available whatever is asked.
SetAvailableTrue(halls, itemId, flag) ==
  IF itemId \in DOMAIN halls
  THEN [halls EXCEPT ![itemId].available = TRUE]
  ELSE halls

\* updateOne({ _id }, { $set: { available: flag } })
SetAvailable(halls, itemId, flag) ==
  IF itemId \in DOMAIN halls
  THEN [halls EXCEPT ![itemId].available = flag]
  ELSE halls

\* The reservation: the updateOne of the branch chosen by itemType.
CartAddReserve(p) ==
  /\ pc[p] = "add_reserve"
  /\ menuCollection' =
       IF req[p].itemType = "menu"
       THEN IncQuantity(menuCollection, req[p].itemId, -req[p].amount)
       ELSE menuCollection
  /\ tableCollection' =
       IF req[p].itemType = "table"
       THEN IncAvailable(tableCollection, req[p].itemId, -req[p].amount)
       ELSE tableCollection
  /\ eventCollection' =
       IF req[p].itemType = "eventhall"
       THEN SetAvailable(eventCollection, req[p].itemId, FALSE)
       ELSE eventCollection
  /\ Goto(p, "add_findCart")
  /\ StepHist(p)
  /\ UNCHANGED <<offerCollection, cartCollection, orderCollection, req,
                 effectivePrice, userCart>>
  /\ UNCHANGED accounts
  /\ UNCHANGED adminAccounts

\* cartCollection.findOne({ email })
ReadCart(carts, email) ==
  LET i == FindOne(carts, email) IN
  IF i = 0 THEN NoCart
  ELSE [found |-> TRUE, items |-> carts[i].items,
        totalCost |-> carts[i].totalCost]

CartAddFindCart(p) ==
  /\ pc[p] = "add_findCart"
  /\ userCart' = [userCart EXCEPT ![p] = ReadCart(cartCollection, req[p].email)]
  /\ Goto(p, "add_writeCart")
  /\ StepHist(p)
  /\ UNCHANGED <<inventory, offerCollection, cartCollection, orderCollection,
                 req, effectivePrice>>
  /\ UNCHANGED accounts
  /\ UNCHANGED adminAccounts

\* The line item POST /cart/add builds.
NewItem(itemId, itemType, price, quantity) ==
  [_id |-> itemId, itemType |-> itemType, price |-> price,
   quantity |-> quantity]

\* Variant of AddedItems: a merge also overwrites the captured price.
AddedItemsReprice(items, itemId, itemType, price, quantity) ==
  LET itemIndex == FindIndex(items, itemId, itemType) IN
  IF itemIndex > 0
  THEN [items EXCEPT ![itemIndex].quantity = @ + quantity,
                     ![itemIndex].price = price]
  ELSE Append(items, NewItem(itemId, itemType, price, quantity))

\* userCart.items after the merge or the push.
AddedItems(items, itemId, itemType, price, quantity) ==
  LET itemIndex == FindIndex(items, itemId, itemType) IN
  IF itemIndex > 0
  THEN [items EXCEPT ![itemIndex].quantity = @ + quantity]
  ELSE Append(items, NewItem(itemId, itemType, price, quantity))

\* updateOne({ email }, { $set: { items, totalCost } }, { upsert })
UpdateCart(carts, email, items, totalCost, upsert) ==
  LET i == FindOne(carts, email) IN
  IF i # 0
  THEN [carts EXCEPT ![i] = [@ EXCEPT !.items = items,
                                      !.totalCost = totalCost]]
  ELSE IF upsert
  THEN Append(carts, [email |-> email, items |-> items,
                      totalCost |-> totalCost])
  ELSE carts

\* The cart write: updateOne of the recomputed cart, or insertOne of a new one.
CartAddWriteCart(p) ==
  /\ pc[p] = "add_writeCart"
  /\ LET r == req[p]
         items == AddedItems(userCart[p].items, r.itemId, r.itemType,
                             effectivePrice[p], r.amount)
     IN
     cartCollection' =
       IF userCart[p].found
       THEN UpdateCart(cartCollection, r.email, items, SumItems(items), FALSE)
       ELSE Append(cartCollection,
                   [email |-> r.email,
                    items |-> <<NewItem(r.itemId, r.itemType,
                                        effectivePrice[p], r.amount)>>,
                    totalCost |-> effectivePrice[p] * r.amount])
  /\ Goto(p, "add_reread")
  /\ StepHist(p)
  /\ UNCHANGED <<inventory, offerCollection, orderCollection, req,
                 effectivePrice, userCart>>
  /\ UNCHANGED accounts
  /\ UNCHANGED adminAccounts

\* const updatedCart = await cartCollection.findOne({ email })
CartAddReread(p) ==
  /\ pc[p] = "add_reread"
  /\ IF FindOne(cartCollection, req[p].email) = 0
     THEN Respond(p, "noreread")
     ELSE Respond(p, "ok")
  /\ StepHist(p)
  /\ UNCHANGED <<inventory, offerCollection, cartCollection, orderCollection,
                 req, effectivePrice, userCart>>
  /\ UNCHANGED accounts
  /\ UNCHANGED adminAccounts

\* ----------------------------------------------- PUT /cart/:email/:itemId
\* item.quantity + change for the line item the handler located.
CartItem(p) ==
  userCart[p].items[FindIndex(userCart[p].items, req[p].itemId,
                              req[p].itemType)]

NewQty(p) == CartItem(p).quantity + req[p].amount

\* The request arrives: the cart read, the lookup of the line item, and the
\* choice of the next store operation.
CartPutBegin(p) ==
  /\ CanBegin(p)
  /\ \E body \in PutBodies :
       LET email == body.email
           itemType == body.target[1]
           itemId == body.target[2]
           change == body.change
           cart == ReadCart(cartCollection, email)
           itemIndex == FindIndex(cart.items, itemId, itemType)
       IN
       /\ req' = Fresh(req, p,
                    [op |-> "put", email |-> email, itemType |-> itemType,
                     itemId |-> itemId, price |-> 0, amount |-> change], NoReq)
       /\ IF ~cart.found
          THEN /\ BeginRespond(p, "cartnotfound")
               /\ userCart' = Fresh(userCart, p, NoCart, NoCart)
          ELSE IF itemIndex = 0
          THEN /\ BeginRespond(p, "itemnotincart")
               /\ userCart' = Fresh(userCart, p, NoCart, NoCart)
          ELSE /\ userCart' = Fresh(userCart, p, cart, NoCart)
               /\ IF itemType = "menu" /\ change > 0
                  THEN BeginGoto(p, "put_findMenu")
                  ELSE IF cart.items[itemIndex].quantity + change <= 0
                  THEN BeginGoto(p, "put_release")
                  ELSE BeginGoto(p, "put_writeCart")
       /\ BeginHist(p, Undoes(p, body))
  /\ effectivePrice' = Fresh(effectivePrice, p, 0, 0)
  /\ UNCHANGED <<inventory, offerCollection, cartCollection, orderCollection>>
  /\ UNCHANGED accounts
  /\ UNCHANGED adminAccounts

\* Variant of CartPutFindMenu: the stock is decremented before it is checked.
CartPutFindMenuEager(p) ==
  /\ pc[p] = "put_findMenu"
  /\ IF \/ req[p].itemId \notin DOMAIN menuCollection
        \/ menuCollection[req[p].itemId].quantity < req[p].amount
     THEN Respond(p, "insufficient")
     ELSE Goto(p, "put_reserve")
  /\ menuCollection' = IncQuantity(menuCollection, req[p].itemId,
                                   -req[p].amount)
  /\ StepHist(p)
  /\ UNCHANGED <<tableCollection, eventCollection, offerCollection,
                 cartCollection, orderCollection, req, effectivePrice,
                 userCart>>
  /\ UNCHANGED accounts
  /\ UNCHANGED adminAccounts

\* menuCollection.findOne({ _id }) and the stock check of a positive change.
CartPutFindMenu(p) ==
  /\ pc[p] = "put_findMenu"
  /\ IF \/ req[p].itemId \notin DOMAIN menuCollection
        \/ menuCollection[req[p].itemId].quantity < req[p].amount
     THEN Respond(p, "insufficient")
     ELSE Goto(p, "put_reserve")
  /\ StepHist(p)
  /\ UNCHANGED <<inventory, offerCollection, cartCollection, orderCollection,
                 req, effectivePrice, userCart>>
  /\ UNCHANGED accounts
  /\ UNCHANGED adminAccounts

\* updateOne({ _id }, { $inc: { quantity: -change } })
CartPutReserve(p) ==
  /\ pc[p] = "put_reserve"
  /\ menuCollection' = IncQuantity(menuCollection, req[p].itemId,
                                   -req[p].amount)
  /\ IF NewQty(p) <= 0
     THEN Goto(p, "put_release")
     ELSE Goto(p, "put_writeCart")
  /\ StepHist(p)
  /\ UNCHANGED <<tableCollection, eventCollection, offerCollection,
                 cartCollection, orderCollection, req, effectivePrice,
                 userCart>>
  /\ UNCHANGED accounts
  /\ UNCHANGED adminAccounts

\* newQty <= 0: the release of the line item's quantity.
CartPutRelease(p) ==
  /\ pc[p] = "put_release"
  /\ menuCollection' =
       IF req[p].itemType = "menu"
       THEN IncQuantity(menuCollection, req[p].itemId, CartItem(p).quantity)
       ELSE menuCollection
  /\ tableCollection' =
       IF req[p].itemType = "table"
       THEN IncAvailable(tableCollection, req[p].itemId, CartItem(p).quantity)
       ELSE tableCollection
  /\ eventCollection' =
       IF req[p].itemType = "eventhall"
       THEN SetAvailable(eventCollection, req[p].itemId, TRUE)
       ELSE eventCollection
  /\ Goto(p, "put_writeCart")
  /\ StepHist(p)
  /\ UNCHANGED <<offerCollection, cartCollection, orderCollection, req,
                 effectivePrice, userCart>>
  /\ UNCHANGED accounts
  /\ UNCHANGED adminAccounts

\* userCart.items after the splice or the quantity assignment.
ChangedItems(items, itemId, itemType, change) ==
  LET itemIndex == FindIndex(items, itemId, itemType)
      newQty == items[itemIndex].quantity + change
  IN
  IF newQty <= 0
  THEN Splice(items, itemIndex)
  ELSE [items EXCEPT ![itemIndex].quantity = newQty]

\* Variant of ChangedTotal: a removal is charged by the change, not by the
\* quantity the line item held.
ChangedTotalByChange(cart, itemId, itemType, change) ==
  LET item == cart.items[FindIndex(cart.items, itemId, itemType)] IN
  cart.totalCost + item.price * change

\* userCart.totalCost after the adjustment.
ChangedTotal(cart, itemId, itemType, change) ==
  LET item == cart.items[FindIndex(cart.items, itemId, itemType)] IN
  IF item.quantity + change <= 0
  THEN cart.totalCost - item.price * item.quantity
  ELSE cart.totalCost + item.price * change

\* The cart write: updateOne with upsert of the adjusted cart.
CartPutWriteCart(p) ==
  /\ pc[p] = "put_writeCart"
  /\ LET r == req[p] IN
     cartCollection' =
       UpdateCart(cartCollection, r.email,
                  ChangedItems(userCart[p].items, r.itemId, r.itemType,
                               r.amount),
                  ChangedTotal(userCart[p], r.itemId, r.itemType, r.amount),
                  TRUE)
  /\ Respond(p, "ok")
  /\ StepHist(p)
  /\ UNCHANGED <<inventory, offerCollection, orderCollection, req,
                 effectivePrice, userCart>>
  /\ UNCHANGED accounts
  /\ UNCHANGED adminAccounts

\* ------------------------------------------------------------ POST /order
\* Variant of CartIsEmpty: only a missing cart record counts as empty.
CartIsEmptyNoRecord(cart) == ~cart.found

\* !cart || !cart.items.length
CartIsEmpty(cart) == ~cart.found \/ Len(cart.items) = 0

\* The request arrives: the cart read and the empty-cart check.
OrderBegin(p) ==
  /\ CanBegin(p)
  /\ \E email \in Emails :
       LET cart == ReadCart(cartCollection, email) IN
       /\ req' = Fresh(req, p,
                    [op |-> "order", email |-> email, itemType |-> "menu",
                     itemId |-> "m1", price |-> 0, amount |-> 0], NoReq)
       /\ IF CartIsEmpty(cart)
          THEN /\ BeginRespond(p, "empty")
               /\ userCart' = Fresh(userCart, p, NoCart, NoCart)
          ELSE /\ BeginGoto(p, "ord_insert")
               /\ userCart' = Fresh(userCart, p, cart, NoCart)
  /\ effectivePrice' = Fresh(effectivePrice, p, 0, 0)
  /\ BeginHist(p, FALSE)
  /\ UNCHANGED <<inventory, offerCollection, cartCollection, orderCollection>>
  /\ UNCHANGED accounts
  /\ UNCHANGED adminAccounts

\* orderCollection.insertOne({ email, items: orderItems, total, createdAt })
OrderInsert(p) ==
  /\ pc[p] = "ord_insert"
  /\ orderCollection' =
       Append(orderCollection,
              [email |-> req[p].email, items |-> userCart[p].items,
               total |-> SumItems(userCart[p].items)])
  /\ Goto(p, "ord_delete")
  /\ StepHist(p)
  /\ UNCHANGED <<inventory, offerCollection, cartCollection, req,
                 effectivePrice, userCart>>
  /\ UNCHANGED accounts
  /\ UNCHANGED adminAccounts

\* cartCollection.deleteOne({ email })
OrderDeleteCart(p) ==
  /\ pc[p] = "ord_delete"
  /\ cartCollection' = DeleteOne(cartCollection, req[p].email)
  /\ Respond(p, "ok")
  /\ StepHist(p)
  /\ UNCHANGED <<inventory, offerCollection, orderCollection, req,
                 effectivePrice, userCart>>
  /\ UNCHANGED accounts
  /\ UNCHANGED adminAccounts

\* ------------------------------------------------------- GET /cart/:email
\* Variant of CartGet: a read that finds no cart record stores an empty one.
CartGetUpsert(p) ==
  /\ CanBegin(p)
  /\ \E email \in Emails :
       /\ req' = Fresh(req, p,
                    [op |-> "get", email |-> email, itemType |-> "menu",
                     itemId |-> "m1", price |-> 0, amount |-> 0], NoReq)
       /\ userCart' = Fresh(userCart, p, ReadCart(cartCollection, email),
                            NoCart)
       /\ cartCollection' = UpdateCart(cartCollection, email,
                                       ReadCart(cartCollection, email).items,
                                       ReadCart(cartCollection, email).totalCost,
                                       TRUE)
  /\ BeginRespond(p, "ok")
  /\ effectivePrice' = Fresh(effectivePrice, p, 0, 0)
  /\ BeginHist(p, FALSE)
  /\ UNCHANGED <<inventory, offerCollection, orderCollection>>
  /\ UNCHANGED accounts
  /\ UNCHANGED adminAccounts

\* The whole handler: cartCollection.findOne({ email }) and the answer, the
\* items and totalCost of the record, or no items and 0 when there is none
\* (kept in userCart).
CartGet(p) ==
  /\ CanBegin(p)
  /\ \E email \in Emails :
       /\ req' = Fresh(req, p,
                    [op |-> "get", email |-> email, itemType |-> "menu",
                     itemId |-> "m1", price |-> 0, amount |-> 0], NoReq)
       /\ userCart' = Fresh(userCart, p, ReadCart(cartCollection, email),
                            NoCart)
  /\ BeginRespond(p, "ok")
  /\ effectivePrice' = Fresh(effectivePrice, p, 0, 0)
  /\ BeginHist(p, FALSE)
  /\ UNCHANGED <<inventory, offerCollection, cartCollection, orderCollection>>
  /\ UNCHANGED accounts
  /\ UNCHANGED adminAccounts

\* ------------------------------------------------- admin service: offers
\* POST /admin/offers/add for an existing menu item with a positive price.
AdminOfferAdd ==
  /\ reqCount < MaxReqs
  /\ \E itemId \in MenuIds, offerPrice \in OfferPrices :
       offerCollection' =
         Append(offerCollection,
                [itemId |-> itemId, offerPrice |-> offerPrice])
  /\ reqCount' = reqCount + 1
  /\ UNCHANGED <<inventory, cartCollection, orderCollection, pc, req,
                 effectivePrice, userCart, res, pre, prev>>
  /\ UNCHANGED accounts
  /\ UNCHANGED adminAccounts

\* DELETE /admin/offers/delete/:id
AdminOfferDelete ==
  /\ reqCount < MaxReqs
  /\ \E i \in 1..Len(offerCollection) :
       offerCollection' = Splice(offerCollection, i)
  /\ reqCount' = reqCount + 1
  /\ UNCHANGED <<inventory, cartCollection, orderCollection, pc, req,
                 effectivePrice, userCart, res, pre, prev>>
  /\ UNCHANGED accounts
  /\ UNCHANGED adminAccounts

Next ==
  \/ \E p \in Procs : CartAddBegin(p)
  \/ \E p \in Procs : CartAddFindOffer(p)
  \/ \E p \in Procs : CartAddReserve(p)
  \/ \E p \in Procs : CartAddFindCart(p)
  \/ \E p \in Procs : CartAddWriteCart(p)
  \/ \E p \in Procs : CartAddReread(p)
  \/ \E p \in Procs : CartPutBegin(p)
  \/ \E p \in Procs : CartPutFindMenu(p)
  \/ \E p \in Procs : CartPutReserve(p)
  \/ \E p \in Procs : CartPutRelease(p)
  \/ \E p \in Procs : CartPutWriteCart(p)
  \/ \E p \in Procs : OrderBegin(p)
  \/ \E p \in Procs : OrderInsert(p)
  \/ \E p \in Procs : OrderDeleteCart(p)
  \/ \E p \in Procs : CartGet(p)
  \/ AdminOfferAdd
  \/ AdminOfferDelete

Spec == Init /\ [][Next]_vars

\* ------------------------------------- POST /cart/add: a failing store
\* The bodies of POST /cart/add that reach the first store read.
StoreBodies ==
  { body \in AddBodies :
      /\ body.quantity # 0
      /\ body.price > 0
      /\ body.target[1] \in {"menu", "table", "eventhall"} }

\* The thrown error reaches the catch block: for a menu item the block awaits
\* the credit of the quantity, for the other item types it answers at once.
\* after says that the cart write had been done when the error was thrown.
Caught(itemType, after) ==
  IF itemType = "menu"
  THEN IF after THEN "add_catchLate" ELSE "add_catch"
  ELSE IF after THEN "done_late" ELSE "done_error"

\* The request arrives and the first store read (findOne of the menu item,
\* table or hall) throws.
CartAddBeginThrow(p) ==
  /\ CanBegin(p)
  /\ \E body \in StoreBodies :
       /\ req' = Fresh(req, p,
                    [op |-> "add", email |-> body.email,
                     itemType |-> body.target[1], itemId |-> body.target[2],
                     price |-> body.price, amount |-> body.quantity], NoReq)
       /\ effectivePrice' = Fresh(effectivePrice, p, body.price, 0)
       /\ IF body.target[1] = "menu"
          THEN BeginGoto(p, "add_catch")
          ELSE BeginRespond(p, "error")
  /\ userCart' = Fresh(userCart, p, NoCart, NoCart)
  /\ BeginHist(p, FALSE)
  /\ UNCHANGED <<inventory, offerCollection, cartCollection, orderCollection>>
  /\ UNCHANGED accounts
  /\ UNCHANGED adminAccounts

\* A later store operation of the handler throws instead of taking effect.
CartAddThrow(p) ==
  /\ pc[p] \in {"add_findOffer", "add_reserve", "add_findCart",
                "add_writeCart", "add_reread"}
  /\ LET next == Caught(req[p].itemType, pc[p] = "add_reread") IN
     IF next = "done_error" THEN Respond(p, "error")
     ELSE IF next = "done_late" THEN Respond(p, "error_late")
     ELSE Goto(p, next)
  /\ StepHist(p)
  /\ UNCHANGED <<inventory, offerCollection, cartCollection, orderCollection,
                 req, effectivePrice, userCart>>
  /\ UNCHANGED accounts
  /\ UNCHANGED adminAccounts

\* catch: menuCollection.updateOne({ _id }, { $inc: { quantity } }) and the
\* answer with status 500.
CartAddCatch(p) ==
  /\ pc[p] \in {"add_catch", "add_catchLate"}
  /\ menuCollection' = IncQuantity(menuCollection, req[p].itemId,
                                   req[p].amount)
  /\ IF pc[p] = "add_catch"
     THEN Respond(p, "error")
     ELSE Respond(p, "error_late")
  /\ StepHist(p)
  /\ UNCHANGED <<tableCollection, eventCollection, offerCollection,
                 cartCollection, orderCollection, req, effectivePrice,
                 userCart>>
  /\ UNCHANGED accounts
  /\ UNCHANGED adminAccounts

\* POST /cart/add over a store whose operations can fail, the requests
\* served one after the other by activation 1.
NextFault ==
  \/ CartAddBegin(1)
  \/ CartAddFindOffer(1)
  \/ CartAddReserve(1)
  \/ CartAddFindCart(1)
  \/ CartAddWriteCart(1)
  \/ CartAddReread(1)
  \/ CartAddBeginThrow(1)
  \/ CartAddThrow(1)
  \/ CartAddCatch(1)

SpecFault == Init /\ [][NextFault]_vars

\* req.body.offerPrice of PUT /admin/offers/update/:id (a negative price is
\* stored as it is), and req.body.price of PUT /admin/menu/update/:id.
UpdatedOfferPrices == {3, -1}

UpdatedMenuPrices == {4}

\* Variant of AdminOfferUpdate: the new offer price is also written into the
\* line items of the offer's menu item in every cart.
AdminOfferUpdateReprice ==
  /\ reqCount < MaxReqs
  /\ \E i \in 1..Len(offerCollection), offerPrice \in UpdatedOfferPrices :
       /\ offerCollection' = [offerCollection EXCEPT ![i].offerPrice = offerPrice]
       /\ cartCollection' =
            [c \in 1..Len(cartCollection) |->
               [cartCollection[c] EXCEPT !.items =
                  [k \in 1..Len(@) |->
                     IF @[k]._id = offerCollection[i].itemId
                     THEN [@[k] EXCEPT !.price = offerPrice]
                     ELSE @[k]]]]
  /\ reqCount' = reqCount + 1
  /\ UNCHANGED <<inventory, orderCollection, pc, req, effectivePrice,
                 userCart, res, pre, prev>>
  /\ UNCHANGED accounts
  /\ UNCHANGED adminAccounts

\* PUT /admin/offers/update/:id with an offer price:
\* updateOne({ _id }, { $set: { offerPrice: parseFloat(offerPrice) } })
AdminOfferUpdate ==
  /\ reqCount < MaxReqs
  /\ \E i \in 1..Len(offerCollection), offerPrice \in UpdatedOfferPrices :
       offerCollection' = [offerCollection EXCEPT ![i].offerPrice = offerPrice]
  /\ reqCount' = reqCount + 1
  /\ UNCHANGED <<inventory, cartCollection, orderCollection, pc, req,
                 effectivePrice, userCart, res, pre, prev>>
  /\ UNCHANGED accounts
  /\ UNCHANGED adminAccounts

\* PUT /admin/menu/update/:id with a price and no other field:
\* updateOne({ _id }, { $set: { price: parseFloat(price) } })
AdminMenuUpdate ==
  /\ reqCount < MaxReqs
  /\ \E itemId \in MenuIds, price \in UpdatedMenuPrices :
       menuCollection' = [menuCollection EXCEPT ![itemId].price = price]
  /\ reqCount' = reqCount + 1
  /\ UNCHANGED <<tableCollection, eventCollection, offerCollection,
                 cartCollection, orderCollection, pc, req, effectivePrice,
                 userCart, res, pre, prev>>
  /\ UNCHANGED accounts
  /\ UNCHANGED adminAccounts

\* POST /cart/add next to the admin's changes of offers and menu prices.
NextPrice ==
  \/ \E p \in Procs : CartAddBegin(p)
  \/ \E p \in Procs : CartAddFindOffer(p)
  \/ \E p \in Procs : CartAddReserve(p)
  \/ \E p \in Procs : CartAddFindCart(p)
  \/ \E p \in Procs : CartAddWriteCart(p)
  \/ \E p \in Procs : CartAddReread(p)
  \/ AdminOfferAdd
  \/ AdminOfferUpdate
  \/ AdminOfferDelete
  \/ AdminMenuUpdate

SpecPrice == Init /\ [][NextPrice]_vars

\* ------------------------------------------ verification codes, passwords
\* The whole handler of /forgot and of /send-code: usersCollection.findOne,
\* the new code with the time of issue, and the mail (sent says whether
\* transporter.sendMail succeeded).
IssueCode(op, email, code, sent) ==
  /\ IF email \notin DOMAIN usersCollection
     THEN /\ authRes' = [op |-> op, email |-> email, code |-> "",
                         status |-> "notfound"]
          /\ UNCHANGED <<verificationCodes, resetSince>>
     ELSE /\ verificationCodes' =
               [verificationCodes EXCEPT ![email] =
                  <<[code |-> code, timestamp |-> now]>>]
          /\ resetSince' = resetSince \ {email}
          /\ authRes' = [op |-> op, email |-> email, code |-> code,
                         status |-> IF sent THEN "sent" ELSE "error"]
  /\ UNCHANGED <<usersCollection, now>>
  /\ UNCHANGED cartState
  /\ UNCHANGED adminAccounts

\* POST /forgot
Forgot ==
  \E email \in Emails, code \in Codes, sent \in BOOLEAN :
    IssueCode("forgot", email, code, sent)

\* POST /send-code
SendCode ==
  \E email \in Emails, code \in Codes, sent \in BOOLEAN :
    IssueCode("send-code", email, code, sent)

\* !stored || stored.code !== code || Date.now() - stored.timestamp > 10 min
CodeRejected(stored, code, time) ==
  \/ stored = <<>>
  \/ stored[1].code # code
  \/ time - stored[1].timestamp > ExpiryMinutes

\* POST /verify-code
VerifyCode ==
  /\ \E email \in Emails, code \in SentCodes :
       authRes' = [op |-> "verify", email |-> email, code |-> code,
                   status |-> IF CodeRejected(verificationCodes[email], code,
                                              now)
                              THEN "invalid" ELSE "verified"]
  /\ UNCHANGED <<usersCollection, verificationCodes, now, resetSince>>
  /\ UNCHANGED cartState
  /\ UNCHANGED adminAccounts

\* POST /change-password: the field check, usersCollection.findOne, the hash
\* and usersCollection.updateOne (the salted hash differs from the stored
\* one, so modifiedCount is 1).
ChangePassword ==
  /\ \E email \in Emails, newPassword \in NewPasswords :
       IF newPassword = ""
       THEN /\ authRes' = [op |-> "change-password", email |-> email,
                           code |-> "", status |-> "missing"]
            /\ UNCHANGED <<usersCollection, resetSince>>
       ELSE IF email \notin DOMAIN usersCollection
       THEN /\ authRes' = [op |-> "change-password", email |-> email,
                           code |-> "", status |-> "notfound"]
            /\ UNCHANGED <<usersCollection, resetSince>>
       ELSE /\ usersCollection' =
                 [usersCollection EXCEPT ![email].password =
                    Hash(newPassword)]
            /\ resetSince' = resetSince \cup {email}
            /\ authRes' = [op |-> "change-password", email |-> email,
                           code |-> "", status |-> "reset"]
  /\ UNCHANGED <<verificationCodes, now>>
  /\ UNCHANGED cartState
  /\ UNCHANGED adminAccounts

\* Time passes.
Tick ==
  /\ now + TickMinutes <= MaxMinutes
  /\ now' = now + TickMinutes
  /\ UNCHANGED <<usersCollection, verificationCodes, authRes, resetSince>>
  /\ UNCHANGED cartState
  /\ UNCHANGED adminAccounts

\* The account handlers of the customer service.
NextCode ==
  \/ Forgot
  \/ SendCode
  \/ VerifyCode
  \/ ChangePassword
  \/ Tick

SpecCode == Init /\ [][NextCode]_vars

\* ------------------------------- admin service: codes and passwords
\* The whole handler of POST /admin/forgot: usersCollection.findOne, the new
\* code, and the mail.
AdminForgot ==
  /\ \E email \in AdminEmails, code \in Codes :
       IF email \notin DOMAIN usersCollection \/ ~usersCollection[email].isAdmin
       THEN /\ adminRes' = [op |-> "forgot", email |-> email, code |-> "",
                            status |-> "notfound"]
            /\ UNCHANGED adminVerificationCodes
       ELSE /\ adminVerificationCodes' =
                 [adminVerificationCodes EXCEPT ![email] = code]
            /\ adminRes' = [op |-> "forgot", email |-> email, code |-> code,
                            status |-> "sent"]
  /\ UNCHANGED adminPending
  /\ UNCHANGED <<cartState, accounts>>

\* verificationCodes[email] !== code
AdminCodeMismatch(stored, code) == stored # code

\* POST /admin/change-password arrives: the code test, and the call of
\* bcrypt.hash at which the handler waits.
AdminChangePasswordBegin ==
  /\ Cardinality(adminPending) < Cardinality(Procs)
  /\ \E email \in AdminEmails, code \in AdminSentCodes,
        newPassword \in AdminNewPasswords :
       IF AdminCodeMismatch(adminVerificationCodes[email], code)
       THEN /\ adminRes' = [op |-> "change-password", email |-> email,
                            code |-> code, status |-> "invalid"]
            /\ UNCHANGED adminPending
       ELSE /\ adminPending' =
                 adminPending \cup
                   {[email |-> email, code |-> code,
                     newPassword |-> newPassword]}
            /\ UNCHANGED adminRes
  /\ UNCHANGED adminVerificationCodes
  /\ UNCHANGED <<cartState, accounts>>

\* usersCollection.updateOne({ email, isAdmin: true }, { $set: { password } })
UpdateAdminPassword(users, email, hashed) ==
  IF email \in DOMAIN users /\ users[email].isAdmin
  THEN [users EXCEPT ![email].password = hashed]
  ELSE users

\* The rest of the handler: the update of the password, delete
\* verificationCodes[email], and the answer.
AdminChangePasswordWrite ==
  /\ \E r \in adminPending :
       /\ usersCollection' =
            UpdateAdminPassword(usersCollection, r.email, Hash(r.newPassword))
       /\ adminVerificationCodes' =
            [adminVerificationCodes EXCEPT ![r.email] = Undefined]
       /\ adminPending' = adminPending \ {r}
       /\ adminRes' = [op |-> "change-password", email |-> r.email,
                       code |-> r.code, status |-> "reset"]
  /\ UNCHANGED <<verificationCodes, now, authRes, resetSince>>
  /\ UNCHANGED cartState

\* The account handlers of the admin service.
NextAdminCode ==
  \/ AdminForgot
  \/ AdminChangePasswordBegin
  \/ AdminChangePasswordWrite

SpecAdminCode == Init /\ [][NextAdminCode]_vars

TypeOK ==
  /\ \A p \in Procs : pc[p] \in
       {"idle", "done", "add_findOffer", "add_reserve", "add_findCart",
        "add_writeCart", "add_reread", "put_findMenu", "put_reserve",
        "put_release", "put_writeCart", "ord_insert", "ord_delete",
        "add_catch", "add_catchLate"}
  /\ reqCount \in 0..MaxReqs
  /\ now \in 0..MaxMinutes
  /\ DOMAIN verificationCodes = Emails

\* ------------------------------------------------------------ properties
Done(p) == pc[p] = "done"

\* The last request of p ran from its first to its last store operation
\* with no store operation of another handler in between.
Isolated(p) == Done(p) /\ pre[p] # <<>>

\* What GET /cart/:email answers on a cart collection.
CartRead(carts, email) ==
  [items |-> ReadCart(carts, email).items,
   totalCost |-> ReadCart(carts, email).totalCost]

\* The availability of a resource in a snapshot of the store.
Avail(snap, itemType, itemId) ==
  IF itemType = "menu" THEN snap.menu[itemId].quantity
  ELSE IF itemType = "table" THEN snap.tables[itemId].available
  ELSE snap.halls[itemId].available

SameInventory(snap) ==
  /\ snap.menu = menuCollection
  /\ snap.tables = tableCollection
  /\ snap.halls = eventCollection

\* C1: in every reachable state the stock quantity of every menu item and
\* the available count of every table is at least 0.
C1_InventoryNonNegative ==
  /\ \A m \in MenuIds : menuCollection[m].quantity >= 0
  /\ \A t \in TableIds : tableCollection[t].available >= 0

\* C2: the table starts with available = 1; when the only two requests of a
\* behaviour are overlapping cart-adds of one unit of that table, exactly one
\* of them succeeds and the other fails for insufficient availability.
C2_TableRaceOneWinner ==
  ( /\ reqCount = 2
    /\ \A p \in Procs :
         /\ Done(p)
         /\ req[p].op = "add"
         /\ req[p].itemType = "table"
         /\ req[p].itemId = "t1"
         /\ req[p].amount = 1 )
  => \E p, r \in Procs : res[p] = "ok" /\ res[r] = "insufficient"

\* C3: every stored cart record's totalCost equals the sum over its line
\* items of price * quantity, in every reachable state.
C3_TotalIsSum ==
  \A i \in 1..Len(cartCollection) :
    cartCollection[i].totalCost = SumItems(cartCollection[i].items)

\* A cart-add and a cart-quantity-change of one customer have interleaved
\* and both succeeded; the write of the quantity change came last and was
\* computed from the cart as it was before the add, so the customer's cart
\* holds a line item but not the one that was added.
C3_Witness ==
  /\ \A p \in Procs : Done(p) /\ res[p] = "ok" /\ ~Isolated(p)
  /\ req[1].email = req[2].email
  /\ {req[1].op, req[2].op} = {"add", "put"}
  /\ Len(CartRead(cartCollection, req[1].email).items) > 0
  /\ \E p \in Procs :
       /\ req[p].op = "add"
       /\ FindIndex(CartRead(cartCollection, req[p].email).items,
                    req[p].itemId, req[p].itemType) = 0

\* A cart-add of a count-based resource has succeeded in isolation.
CountAddOk(p) ==
  /\ Isolated(p)
  /\ req[p].op = "add"
  /\ res[p] = "ok"
  /\ req[p].itemType \in {"menu", "table"}

\* The line item of the request's resource in the cart the customer had when
\* the request began (0 when there is none).
PreCart(p) == ReadCart(pre[p][1].carts, req[p].email)

PreIndex(p) == FindIndex(PreCart(p).items, req[p].itemId, req[p].itemType)

\* The unit price of the line item a cart-add puts its quantity on.
LinePrice(p) ==
  IF PreIndex(p) > 0 THEN PreCart(p).items[PreIndex(p)].price
  ELSE effectivePrice[p]

\* C4 as stated: after a successful cart-add of quantity q of a menu item or
\* table, availability is the availability before minus q, and the cart's
\* totalCost is the totalCost before plus effectivePrice * q, also when the
\* add merges into an existing line item.
C4_AddByEffectivePrice ==
  \A p \in Procs :
    CountAddOk(p) =>
      /\ Avail(Snapshot, req[p].itemType, req[p].itemId)
           = Avail(pre[p][1], req[p].itemType, req[p].itemId) - req[p].amount
      /\ CartRead(cartCollection, req[p].email).totalCost
           = PreCart(p).totalCost + effectivePrice[p] * req[p].amount

\* C4 amended: after a successful cart-add of quantity q of a menu item or
\* table, availability is the availability before minus q, and the cart's
\* totalCost is the totalCost before plus p * q, where p is effectivePrice
\* for a newly appended line item and the price already captured in the line
\* item when the add merges into an existing one.
C4_AddByLinePrice ==
  \A p \in Procs :
    CountAddOk(p) =>
      /\ Avail(Snapshot, req[p].itemType, req[p].itemId)
           = Avail(pre[p][1], req[p].itemType, req[p].itemId) - req[p].amount
      /\ CartRead(cartCollection, req[p].email).totalCost
           = PreCart(p).totalCost + LinePrice(p) * req[p].amount

\* A successful cart-add has merged into a line item whose captured price
\* is not the price resolved for the call.
C4_Witness ==
  \E p \in Procs :
    /\ CountAddOk(p)
    /\ PreIndex(p) > 0
    /\ LinePrice(p) # effectivePrice[p]

\* C5 (for a quantity q >= 1): a successful cart-add of quantity q followed
\* immediately by a cart-quantity-change of -q on the same resource of the
\* same customer leaves the availability of the resource as it was before
\* the cart-add, also when the cart already held a line item of the resource.
C5_RoundTrip ==
  \A p \in Procs :
    ( /\ Isolated(p)
      /\ req[p].op = "put"
      /\ res[p] = "ok"
      /\ prev[p] # <<>>
      /\ prev[p][1].req.amount >= 1 )
    => Avail(Snapshot, req[p].itemType, req[p].itemId)
         = Avail(prev[p][1].pre, req[p].itemType, req[p].itemId)

\* A cart-quantity-change has succeeded in isolation with a resulting
\* quantity <= 0.
RemovingPutOk(p) ==
  /\ Isolated(p)
  /\ req[p].op = "put"
  /\ res[p] = "ok"
  /\ PreCart(p).items[PreIndex(p)].quantity + req[p].amount <= 0

\* C6: after a cart-quantity-change whose resulting quantity is <= 0 the line
\* item is no longer in the cart and availability is the availability before
\* plus the line item's old quantity (the flag of an event hall is true).
C6_ReleaseOldQuantity ==
  \A p \in Procs :
    RemovingPutOk(p) =>
      /\ FindIndex(CartRead(cartCollection, req[p].email).items,
                   req[p].itemId, req[p].itemType) = 0
      /\ IF req[p].itemType = "eventhall"
         THEN Avail(Snapshot, req[p].itemType, req[p].itemId) = TRUE
         ELSE Avail(Snapshot, req[p].itemType, req[p].itemId)
                = Avail(pre[p][1], req[p].itemType, req[p].itemId)
                  + PreCart(p).items[PreIndex(p)].quantity

\* C7: a cart-add or cart-quantity-change whose availability check fails
\* answers with an error and leaves every inventory counter and every cart
\* record as they were before the request.
C7_DeniedChangesNothing ==
  \A p \in Procs :
    (Isolated(p) /\ res[p] \in {"insufficient", "unavailable"}) =>
      /\ req[p].op \in {"add", "put"}
      /\ SameInventory(pre[p][1])
      /\ cartCollection = pre[p][1].carts

\* A cart-quantity-change of a customer who holds line items was denied for
\* insufficient stock.
C7_Witness ==
  \E p \in Procs :
    /\ Isolated(p)
    /\ req[p].op = "put"
    /\ res[p] = "insufficient"
    /\ Len(CartRead(cartCollection, req[p].email).items) > 0

\* A cart-add of an event hall that passed the field and price guards has
\* ended in isolation.
HallAddDone(p) ==
  /\ Isolated(p)
  /\ req[p].op = "add"
  /\ req[p].itemType = "eventhall"
  /\ req[p].itemId \in HallIds
  /\ res[p] \notin {"missing", "badprice"}

\* The outcome of a cart-add of an event hall: success and the flag false
\* when the flag was true, the unavailable error and an unchanged store when
\* the flag was false.
HallAddOutcome(p) ==
  IF pre[p][1].halls[req[p].itemId].available
  THEN /\ res[p] = "ok"
       /\ ~eventCollection[req[p].itemId].available
  ELSE /\ res[p] = "unavailable"
       /\ Snapshot = pre[p][1]

\* C8: a cart-add of an event hall succeeds and sets the flag to false when
\* the flag is true, fails with the unavailable error and changes nothing
\* when the flag is false; and a flag that is false becomes true only by the
\* release of a cart-quantity-change on that hall.
C8_HallBookedOnce ==
  [][ /\ \A p \in Procs : (HallAddDone(p) => HallAddOutcome(p))'
      /\ \A h \in HallIds :
           (~eventCollection[h].available /\ eventCollection'[h].available)
           => \E p \in Procs :
                /\ pc[p] = "put_release"
                /\ pc'[p] = "put_writeCart"
                /\ req[p].itemType = "eventhall"
                /\ req[p].itemId = h ]_vars

\* A customer's cart-add of the hall was refused while the hall is held in
\* the cart of another customer.
C8_Witness ==
  \E p \in Procs :
    /\ HallAddDone(p)
    /\ res[p] = "unavailable"
    /\ \E e \in Emails \ {req[p].email} :
         FindIndex(CartRead(cartCollection, e).items, req[p].itemId,
                   "eventhall") > 0

\* C9: an order placement for an email that has no cart record, or whose cart
\* record has no line items, fails with the empty-cart error and leaves the
\* order records unchanged.
C9_EmptyCartNoOrder ==
  \A p \in Procs :
    ( /\ Isolated(p)
      /\ req[p].op = "order"
      /\ Len(PreCart(p).items) = 0 )
    => /\ res[p] = "empty"
       /\ orderCollection = pre[p][1].orders

\* An order placement was refused for a customer whose cart record exists
\* and has no line items.
C9_Witness ==
  \E p \in Procs :
    /\ Isolated(p)
    /\ req[p].op = "order"
    /\ res[p] = "empty"
    /\ PreCart(p).found

\* C10: after a successful order placement the order records are those
\* before plus one record with the cart's line items and the sum of price *
\* quantity over them, a cart read for the email answers no items and total
\* 0, and every menu stock, table count and hall flag is unchanged.
C10_OrderSnapshotsAndClears ==
  \A p \in Procs :
    ( /\ Isolated(p)
      /\ req[p].op = "order"
      /\ res[p] = "ok" )
    => /\ orderCollection =
            Append(pre[p][1].orders,
                   [email |-> req[p].email, items |-> PreCart(p).items,
                    total |-> SumItems(PreCart(p).items)])
       /\ CartRead(cartCollection, req[p].email)
            = [items |-> <<>>, totalCost |-> 0]
       /\ SameInventory(pre[p][1])

\* Activation r has inserted the order of the cart of email and has not yet
\* deleted that cart.
OrderPending(r, email) ==
  /\ pc[r] = "ord_delete"
  /\ req[r].op = "order"
  /\ req[r].email = email

\* C11: the order records change only by the insertion of one new record at
\* the end (no record is ever modified or deleted), and an order record is
\* inserted for a cart only when no other order placement has already
\* inserted a record for that cart and is still about to delete it.
C11_OrderOncePerCheckout ==
  [][ orderCollection' # orderCollection =>
        \E p \in Procs :
          /\ pc[p] = "ord_insert"
          /\ pc'[p] = "ord_delete"
          /\ Len(orderCollection') = Len(orderCollection) + 1
          /\ SubSeq(orderCollection', 1, Len(orderCollection))
               = orderCollection
          /\ \A r \in Procs \ {p} : ~OrderPending(r, req[p].email) ]_vars

\* C12: in every reachable state there is at most one cart record per
\* customer email.
C12_OneCartPerEmail ==
  \A i, j \in 1..Len(cartCollection) :
    cartCollection[i].email = cartCollection[j].email => i = j

\* C13: a cart read for an email that has no cart record answers without an
\* error, with no items and totalCost 0, and leaves every collection as it
\* was (so no cart record is created and a repeated read answers the same).
C13_GetMissingCart ==
  \A p \in Procs :
    ( /\ Isolated(p)
      /\ req[p].op = "get"
      /\ ~PreCart(p).found )
    => /\ res[p] = "ok"
       /\ userCart[p].items = <<>>
       /\ userCart[p].totalCost = 0
       /\ Snapshot = pre[p][1]

\* A cart read was answered for a customer without a cart record while
\* another customer's cart record is stored.
C13_Witness ==
  \E p \in Procs :
    /\ Isolated(p)
    /\ req[p].op = "get"
    /\ ~PreCart(p).found
    /\ Len(cartCollection) > 0

\* The price the claim expects POST /cart/add to resolve for a menu item:
\* the offer price when the item has an offer with a valid positive price,
\* else the catalog price of the menu item.
OfferOrCatalogPrice(itemId) ==
  IF ValidOfferPrice(offerCollection, itemId) > 0
  THEN ValidOfferPrice(offerCollection, itemId)
  ELSE menuCollection[itemId].price

\* A cart-add of a menu item has succeeded in isolation and appended a new
\* line item.
NewMenuLineOk(p) ==
  /\ Isolated(p)
  /\ req[p].op = "add"
  /\ res[p] = "ok"
  /\ req[p].itemType = "menu"
  /\ PreIndex(p) = 0

\* The line item of the request's resource in the customer's cart.
StoredItem(p) ==
  LET items == CartRead(cartCollection, req[p].email).items IN
  items[FindIndex(items, req[p].itemId, req[p].itemType)]

\* C14: the price a cart-add resolves for a menu item at its offer lookup is
\* the offer price when a valid offer exists at that time and the catalog
\* price otherwise, and that resolved price is the unit price captured in a
\* newly appended line item.
C14_OfferOrCatalogPrice ==
  [][ \A p \in Procs :
        /\ (pc[p] = "add_findOffer" /\ pc'[p] = "add_reserve")
           => effectivePrice'[p] = OfferOrCatalogPrice(req[p].itemId)
        /\ (NewMenuLineOk(p) => StoredItem(p).price = effectivePrice[p])' ]_vars

\* A cart-quantity-change with a positive change on a line item of quantity
\* >= 1 has ended in isolation.
RaisingPutDone(p) ==
  /\ Isolated(p)
  /\ req[p].op = "put"
  /\ req[p].amount > 0
  /\ PreCart(p).found
  /\ PreIndex(p) > 0
  /\ PreCart(p).items[PreIndex(p)].quantity >= 1

\* The availability of the request's resource when the request began covers
\* the amount asked for.
PreCovers(p) ==
  IF req[p].itemType = "eventhall"
  THEN Avail(pre[p][1], req[p].itemType, req[p].itemId)
  ELSE Avail(pre[p][1], req[p].itemType, req[p].itemId) >= req[p].amount

\* C15: for every resource kind, a cart-quantity-change with a positive
\* change is aborted with the store unchanged when availability is less than
\* the change, and otherwise succeeds with the line item's quantity raised
\* by the change and the availability of a count-based resource lowered by
\* the change.
C15_PositiveChangeReserves ==
  \A p \in Procs :
    RaisingPutDone(p) =>
      IF ~PreCovers(p)
      THEN /\ res[p] = "insufficient"
           /\ Snapshot = pre[p][1]
      ELSE /\ res[p] = "ok"
           /\ StoredItem(p).quantity
                = PreCart(p).items[PreIndex(p)].quantity + req[p].amount
           /\ req[p].itemType # "eventhall" =>
                Avail(Snapshot, req[p].itemType, req[p].itemId)
                  = Avail(pre[p][1], req[p].itemType, req[p].itemId)
                    - req[p].amount

\* C16: a cart-add that fails with a storage error before its cart write is
\* answered as failed and leaves every inventory counter and every cart
\* record as they were before the request.
C16_FailedAddRestores ==
  \A p \in Procs :
    (Isolated(p) /\ req[p].op = "add" /\ res[p] = "error") =>
      /\ SameInventory(pre[p][1])
      /\ cartCollection = pre[p][1].carts

\* C17: /verify-code accepts a code for an email only when it is the code
\* most recently issued for that email, at most 10 minutes have passed since
\* it was issued, and the password of that email has not been reset since
\* the code was issued.
C17_CodeValidOnce ==
  [][ (authRes' # authRes /\ authRes'.op = "verify"
       /\ authRes'.status = "verified") =>
        /\ verificationCodes[authRes'.email] # <<>>
        /\ verificationCodes[authRes'.email][1].code = authRes'.code
        /\ now - verificationCodes[authRes'.email][1].timestamp
             <= ExpiryMinutes
        /\ authRes'.email \notin resetSince ]_vars

\* A cart-add has succeeded in isolation and merged into a line item the
\* customer's cart already held.
MergeOk(p) ==
  /\ Isolated(p)
  /\ req[p].op = "add"
  /\ res[p] = "ok"
  /\ PreIndex(p) > 0

\* The admin has changed an offer or the price of a menu item in this step.
PricingChanged ==
  \/ offerCollection' # offerCollection
  \/ \E m \in MenuIds : menuCollection'[m].price # menuCollection[m].price

\* C18: a cart-add that merges into an existing line item raises its
\* quantity by the quantity added and leaves its price as it was captured,
\* whatever the offers are now; and a step that changes an offer or a menu
\* price leaves every cart record as it was.
C18_PriceFrozen ==
  [][ /\ \A p \in Procs :
           ( MergeOk(p) =>
               /\ StoredItem(p).price = PreCart(p).items[PreIndex(p)].price
               /\ StoredItem(p).quantity
                    = PreCart(p).items[PreIndex(p)].quantity + req[p].amount )'
      /\ PricingChanged => cartCollection' = cartCollection ]_vars

\* A cart-add has merged into a line item after the admin changed the offer
\* of the item: the call resolved the current offer price, and the line item
\* keeps another price.
C18_Witness ==
  \E p \in Procs :
    /\ MergeOk(p)
    /\ effectivePrice[p] = ValidOfferPrice(offerCollection, req[p].itemId)
    /\ StoredItem(p).price # effectivePrice[p]

\* The last requests of the two activations overlapped, were mutations of
\* the cart of one customer on different resources, at least one of them a
\* cart-add, both answered success, and the customer has one cart record.
BothMutatedOneCart ==
  /\ \A p \in Procs : Done(p) /\ res[p] = "ok" /\ req[p].op \in {"add", "put"}
  /\ \E p \in Procs : req[p].op = "add"
  /\ req[1].email = req[2].email
  /\ <<req[1].itemType, req[1].itemId>> # <<req[2].itemType, req[2].itemId>>
  /\ Cardinality({i \in 1..Len(cartCollection) :
                    cartCollection[i].email = req[1].email}) = 1

\* The customer's cart shows the line-item change of the request of p: the
\* line item of a cart-add is there; the line item of a quantity change is
\* gone when the change removed it and holds the new quantity otherwise.
Reflected(p) ==
  LET items == CartRead(cartCollection, req[p].email).items
      i == FindIndex(items, req[p].itemId, req[p].itemType)
  IN
  IF req[p].op = "add" THEN i > 0
  ELSE IF NewQty(p) <= 0 THEN i = 0
  ELSE i > 0 /\ items[i].quantity = NewQty(p)

\* C19: when two overlapping mutations of one customer's cart both report
\* success, the resulting cart reflects both of them.
C19_BothMutationsKept ==
  BothMutatedOneCart => \A p \in Procs : Reflected(p)

\* C20: every stored cart record has at least one line item: a customer's
\* cart is either absent or holds a line item.
C20_NoEmptyCartRecord ==
  \A i \in 1..Len(cartCollection) : Len(cartCollection[i].items) >= 1

\* The quantity of a resource in a list of line items.
RECURSIVE HeldInItems(_, _, _)
HeldInItems(items, itemType, itemId) ==
  IF items = <<>> THEN 0
  ELSE (IF items[1].itemType = itemType /\ items[1]._id = itemId
        THEN items[1].quantity ELSE 0)
       + HeldInItems(Tail(items), itemType, itemId)

\* The quantity of a resource in all records of a collection of carts or of
\* orders.
RECURSIVE HeldInRecords(_, _, _)
HeldInRecords(records, itemType, itemId) ==
  IF records = <<>> THEN 0
  ELSE HeldInItems(records[1].items, itemType, itemId)
       + HeldInRecords(Tail(records), itemType, itemId)

\* The availability the resources start with.
InitialAvail(itemType, itemId) == IF itemType = "menu" THEN 2 ELSE 1

\* No handler is between two of its store operations.
Quiescent == \A p \in Procs : ~InFlight(p)

\* C21: whenever no request is in flight, for every menu item and every
\* table the current availability plus the quantity of the resource held in
\* all cart line items plus the quantity of it in all order records equals
\* the availability the resource started with.
C21_InventoryConserved ==
  Quiescent =>
    \A target \in { <<"menu", "m1">>, <<"table", "t1">> } :
      Avail(Snapshot, target[1], target[2])
        + HeldInRecords(cartCollection, target[1], target[2])
        + HeldInRecords(orderCollection, target[1], target[2])
      = InitialAvail(target[1], target[2])

\* C22: every line item of every stored cart record and of every order
\* record has quantity >= 1.
C22_QuantitiesPositive ==
  /\ \A i \in 1..Len(cartCollection) :
       \A k \in 1..Len(cartCollection[i].items) :
         cartCollection[i].items[k].quantity >= 1
  /\ \A i \in 1..Len(orderCollection) :
       \A k \in 1..Len(orderCollection[i].items) :
         orderCollection[i].items[k].quantity >= 1

\* A code issued by /admin/forgot is stored for the email and has not been
\* consumed.
Outstanding(email) == adminVerificationCodes[email] \in Codes

\* C23: a request to /admin/change-password passes the code test only when
\* a code is outstanding for its email and the request carries that code;
\* and an admin's password changes only by a request that carries the
\* outstanding code of the email, which the change consumes.
C23_AdminCodeRequired ==
  [][ /\ \A r \in adminPending' \ adminPending :
           /\ Outstanding(r.email)
           /\ r.code = adminVerificationCodes[r.email]
      /\ \A e \in DOMAIN usersCollection :
           usersCollection'[e].password # usersCollection[e].password =>
             /\ Outstanding(e)
             /\ \E r \in adminPending \ adminPending' :
                  r.email = e /\ r.code = adminVerificationCodes[e]
             /\ ~Outstanding(e)' ]_vars

====
